---------------------------- MODULE Spec2Model ----------------------------
(***************************************************************************)
(* Model of the influent client: the line-protocol encoder (point.rs) and  *)
(* the batched write / query pipeline (client.rs) over the Hurl transport  *)
(* seam (hurl.rs).                                                         *)
(*                                                                         *)
(* Text is modelled as a sequence of one-character strings, so that        *)
(* escaping, joining and formatting are computed character by character.   *)
(* Option<T> is modelled as a sequence of length 0 (None) or 1 (Some).     *)
(***************************************************************************)
EXTENDS Integers, Sequences, FiniteSets, TLC

VARIABLES
    pt,         \* the Point under construction (Option<Point>)
    line,       \* the result of the last Point::to_string (Option<String>)
    arg,        \* the argument of the last escape / Value::to_string call
    out,        \* the text that call returned (Option<String>)
    client,     \* the InfluxClient (Option<InfluxClient>)
    pc,         \* position of the running client call
    op,         \* the client operation running
    measurements, \* write_many's slice of points
    precision,  \* the Option<Precision> argument of the running call
    q,          \* query's q argument
    offset,     \* number of points already consumed by the chunks iterator
    requests,   \* every Request handed to Hurl::request, in order
    responses,  \* every Result<Response, String> Hurl::request returned, in order
    result,     \* the value the client call returned (Option<Result>)
    calls       \* the calls running concurrently on the client, by caller

vars == <<pt, line, arg, out, client, pc, op, measurements, precision, q,
          offset, requests, responses, result, calls>>

pointVars == <<pt, line>>
textVars == <<arg, out>>
clientVars == <<client, pc, op, measurements, precision, q, offset,
                requests, responses, result, calls>>

---------------------------------------------------------------------------
(* Bounds of the model.                                                    *)

MaxStrLen == 3      \* longest text handed to escape / Value::String
MaxPoints == 3      \* longest slice handed to write_many
MaxBatchBound == 2  \* largest max_batch a client is configured with
MaxConcPoints == 2  \* longest slice handed to a concurrent write_many

---------------------------------------------------------------------------
(* Option and text helpers.                                                *)

None == <<>>
Some(x) == <<x>>

\* The byte value of a character: str comparison is byte-wise.
Byte(c) ==
    CASE c = "\n" -> 10
      [] c = " "  -> 32
      [] c = "\"" -> 34
      [] c = ","  -> 44
      [] c = "-"  -> 45
      [] c = "."  -> 46
      [] c = "/"  -> 47
      [] c = "="  -> 61
      [] c = "\\" -> 92
      [] c = "a"  -> 97
      [] c = "b"  -> 98
      [] c = "f"  -> 102
      [] c = "i"  -> 105
      [] c = "k"  -> 107
      [] c = "s"  -> 115
      [] c = "t"  -> 116
      [] OTHER    -> 120

\* Ord for str: lexicographic on bytes; a proper prefix is smaller.
RECURSIVE StrLess(_, _)
StrLess(a, b) ==
    IF b = <<>> THEN FALSE
    ELSE IF a = <<>> THEN TRUE
    ELSE IF Byte(Head(a)) < Byte(Head(b)) THEN TRUE
    ELSE IF Byte(Head(a)) > Byte(Head(b)) THEN FALSE
    ELSE StrLess(Tail(a), Tail(b))

\* str::replace for a one-character pattern: every occurrence, left to right.
RECURSIVE Replace(_, _, _)
Replace(s, from, to) ==
    IF s = <<>> THEN <<>>
    ELSE (IF Head(s) = from THEN to ELSE <<Head(s)>>) \o Replace(Tail(s), from, to)

\* [String]::join
RECURSIVE Join(_, _)
Join(parts, sep) ==
    IF parts = <<>> THEN <<>>
    ELSE IF Len(parts) = 1 THEN parts[1]
    ELSE parts[1] \o sep \o Join(Tail(parts), sep)

Digit(d) ==
    CASE d = 0 -> "0" [] d = 1 -> "1" [] d = 2 -> "2" [] d = 3 -> "3"
      [] d = 4 -> "4" [] d = 5 -> "5" [] d = 6 -> "6" [] d = 7 -> "7"
      [] d = 8 -> "8" [] d = 9 -> "9"

\* Display of an unsigned integer: decimal, no leading zeros.
RECURSIVE NatToString(_)
NatToString(n) ==
    IF n < 10 THEN <<Digit(n)>> ELSE NatToString(n \div 10) \o <<Digit(n % 10)>>

\* Display of a signed integer (i64, u16).
IntToString(i) ==
    IF i < 0 THEN <<"-">> \o NatToString(-i) ELSE NatToString(i)

---------------------------------------------------------------------------
(* point.rs: Value.                                                        *)

ValueString(s) == [type |-> "String", v |-> s]
ValueInteger(i) == [type |-> "Integer", v |-> i]
ValueBoolean(b) == [type |-> "Boolean", v |-> b]
\* An f64 whose shortest round-trip decimal is (-1)^neg * int.frac; frac is a
\* digit sequence that does not end in 0 (empty for an integral float).
ValueFloat(neg, int, frac) ==
    [type |-> "Float", v |-> [neg |-> neg, int |-> int, frac |-> frac]]

\* Display of f64: the shortest decimal that round-trips, no exponent, no
\* trailing ".0".
FloatToString(f) ==
    (IF f.neg THEN <<"-">> ELSE <<>>) \o NatToString(f.int)
        \o (IF f.frac = <<>> THEN <<>>
            ELSE <<".">> \o [k \in 1..Len(f.frac) |-> Digit(f.frac[k])])

Value_to_string_swapped(val) ==
    CASE val.type = "String"  -> <<"\"">> \o Replace(val.v, "\"", <<"\\", "\"">>) \o <<"\"">>
      [] val.type = "Integer" -> IntToString(val.v) \o <<"i">>
      [] val.type = "Float"   -> FloatToString(val.v)
      [] val.type = "Boolean" -> IF val.v THEN <<"f">> ELSE <<"t">>

Value_to_string(val) ==
    CASE val.type = "String"  -> <<"\"">> \o Replace(val.v, "\"", <<"\\", "\"">>) \o <<"\"">>
      [] val.type = "Integer" -> IntToString(val.v) \o <<"i">>
      [] val.type = "Float"   -> FloatToString(val.v)
      [] val.type = "Boolean" -> IF val.v THEN <<"t">> ELSE <<"f">>

---------------------------------------------------------------------------
(* point.rs: escape.                                                       *)

escape_space_only(s) == Replace(s, " ", <<"\\", " ">>)

escape(s) == Replace(Replace(s, " ", <<"\\", " ">>), ",", <<"\\", ",">>)

---------------------------------------------------------------------------
(* point.rs: Point and its builder.  A BTreeMap is a sequence of           *)
(* <<key, value>> pairs kept strictly increasing by key.                   *)

\* BTreeMap::insert without the ordering: a new key goes to the end.
BTreeInsert_append(m, k, v) ==
    IF \E j \in 1..Len(m) : m[j][1] = k
    THEN [j \in 1..Len(m) |-> IF m[j][1] = k THEN <<k, v>> ELSE m[j]]
    ELSE Append(m, <<k, v>>)

\* BTreeMap::insert: replaces the value of an existing key, else places
\* the pair at its position in key order.
BTreeInsert(m, k, v) ==
    IF \E j \in 1..Len(m) : m[j][1] = k
    THEN [j \in 1..Len(m) |-> IF m[j][1] = k THEN <<k, v>> ELSE m[j]]
    ELSE LET n == Cardinality({j \in 1..Len(m) : StrLess(m[j][1], k)})
         IN  SubSeq(m, 1, n) \o <<<<k, v>>>> \o SubSeq(m, n + 1, Len(m))

Point_new(key) ==
    [key |-> key, timestamp |-> None, fields |-> <<>>, tags |-> <<>>]

Point_field(self, field, value) ==
    [self EXCEPT !.fields = BTreeInsert(self.fields, field, value)]

Point_tag(self, tag, value) ==
    [self EXCEPT !.tags = BTreeInsert(self.tags, tag, value)]

Point_timestamp(self, timestamp) ==
    [self EXCEPT !.timestamp = Some(timestamp)]

\* The loop over &self.tags, pushing onto line.
RECURSIVE TagsLoop(_, _, _)
TagsLoop(tags, j, acc) ==
    IF j > Len(tags) THEN acc
    ELSE TagsLoop(tags, j + 1,
            acc \o <<<<",">>, escape(tags[j][1]), <<"=">>, escape(tags[j][2])>>)

\* The loop over &self.fields, pushing onto line; was_spaced is the flag
\* that chooses the separator pushed before each field.
RECURSIVE FieldsLoop(_, _, _, _)
FieldsLoop(fields, j, acc, was_spaced) ==
    IF j > Len(fields) THEN acc
    ELSE FieldsLoop(fields, j + 1,
            acc \o << (IF ~was_spaced THEN <<" ">> ELSE <<",">>),
                      escape(fields[j][1]), <<"=">>,
                      Value_to_string(fields[j][2]) >>,
            TRUE)

\* Point::to_string with was_spaced starting out true.
Point_to_string_was_spaced(self) ==
    LET l0 == <<escape(self.key)>>
        l1 == TagsLoop(self.tags, 1, l0)
        l2 == FieldsLoop(self.fields, 1, l1, TRUE)
        l3 == IF self.timestamp # None
              THEN l2 \o <<<<" ">>, IntToString(self.timestamp[1])>>
              ELSE l2
    IN  Join(l3, <<>>)

Point_to_string(self) ==
    LET l0 == <<escape(self.key)>>
        l1 == TagsLoop(self.tags, 1, l0)
        l2 == FieldsLoop(self.fields, 1, l1, FALSE)
        l3 == IF self.timestamp # None
              THEN l2 \o <<<<" ">>, IntToString(self.timestamp[1])>>
              ELSE l2
    IN  Join(l3, <<>>)

---------------------------------------------------------------------------
(* client.rs and hurl.rs: results, errors, requests.                       *)

Ok(x) == <<"Ok", x>>
Err(e) == <<"Err", e>>
Unit == <<"()">>

\* hurl.rs Response and Response::to_string
Response(status, body) == [status |-> status, body |-> body]
Response_to_string(resp) == resp.body

CouldNotComplete(msg) == [kind |-> "CouldNotComplete", msg |-> msg]
Communication(msg) == [kind |-> "Communication", msg |-> msg]
Syntax(msg) == [kind |-> "Syntax", msg |-> msg]
Unexpected(msg) == [kind |-> "Unexpected", msg |-> msg]

MAX_BATCH == 5000

Precisions ==
    { "Nanoseconds", "Microseconds", "Milliseconds", "Seconds", "Minutes",
      "Hours" }

Precision_to_string_minutes_as_ms(p) ==
    CASE p = "Nanoseconds"  -> <<"n">>
      [] p = "Microseconds" -> <<"u">>
      [] p = "Milliseconds" -> <<"m", "s">>
      [] p = "Seconds"      -> <<"s">>
      [] p = "Minutes"      -> <<"m", "s">>
      [] p = "Hours"        -> <<"h">>

Precision_to_string(p) ==
    CASE p = "Nanoseconds"  -> <<"n">>
      [] p = "Microseconds" -> <<"u">>
      [] p = "Milliseconds" -> <<"m", "s">>
      [] p = "Seconds"      -> <<"s">>
      [] p = "Minutes"      -> <<"m">>
      [] p = "Hours"        -> <<"h">>

Auth(username, password) == [username |-> username, password |-> password]

Request(url, method, auth, query, body) ==
    [url |-> url, method |-> method, auth |-> auth, query |-> query,
     body |-> body]

\* format!("Unexpected response. Status: {}; Body: \"{}\"", status, body)
UnexpectedMessage(resp) ==
    <<"U", "n", "e", "x", "p", "e", "c", "t", "e", "d", " ", "r", "e", "s",
      "p", "o", "n", "s", "e", ".", " ", "S", "t", "a", "t", "u", "s", ":",
      " ">>
        \o IntToString(resp.status)
        \o <<";", " ", "B", "o", "d", "y", ":", " ", "\"">>
        \o Response_to_string(resp) \o <<"\"">>

\* query's auth with || in place of &&.
QueryAuth_either_empty(c) ==
    IF c.username = <<>> \/ c.password = <<>>
    THEN None
    ELSE Some(Auth(c.username, c.password))

\* query: the auth of the request.
QueryAuth(c) ==
    IF c.username = <<>> /\ c.password = <<>>
    THEN None
    ELSE Some(Auth(c.username, c.password))

\* query: the Request it builds.  The HashMap is a set of <<key, value>>.
QueryRequest(c, qs, epoch) ==
    Request(c.host \o <<"/", "q", "u", "e", "r", "y">>, "GET", QueryAuth(c),
            Some({ <<"db", c.database>>, <<"q", qs>> }
                 \cup (IF epoch # None
                       THEN { <<"epoch", Precision_to_string(epoch[1])>> }
                       ELSE {})),
            None)

\* query with every 2xx status taken as success.
ClassifyQuery_any_2xx(r) ==
    IF r[1] = "Err" THEN Err(Communication(r[2]))
    ELSE IF r[2].status \in 200..299 THEN Ok(Response_to_string(r[2]))
    ELSE IF r[2].status = 400 THEN Err(Syntax(Response_to_string(r[2])))
    ELSE Err(Unexpected(UnexpectedMessage(r[2])))

\* query: map_err(ClientError::Communication)? and the match on resp.status.
ClassifyQuery(r) ==
    IF r[1] = "Err" THEN Err(Communication(r[2]))
    ELSE CASE r[2].status = 200 -> Ok(Response_to_string(r[2]))
           [] r[2].status = 400 -> Err(Syntax(Response_to_string(r[2])))
           [] OTHER -> Err(Unexpected(UnexpectedMessage(r[2])))

\* slice::chunks_exact: the remainder is left out.
ChunkAt_exact(ms, off, size) ==
    IF off + size > Len(ms) THEN None
    ELSE Some(SubSeq(ms, off + 1, off + size))

\* slice::chunks(size), size > 0: the next chunk of the slice when off
\* elements are already consumed; None when the iterator is exhausted.
ChunkAt(ms, off, size) ==
    IF off >= Len(ms) THEN None
    ELSE Some(SubSeq(ms, off + 1,
                     IF off + size < Len(ms) THEN off + size ELSE Len(ms)))

\* write_many: the Request built for a chunk.
WriteRequest(c, chunk, prec) ==
    LET lines == [j \in 1..Len(chunk) |-> Point_to_string(chunk[j])]
    IN  Request(c.host \o <<"/", "w", "r", "i", "t", "e">>, "POST",
                Some(Auth(c.username, c.password)),
                Some({ <<"db", c.database>> }
                     \cup (IF prec # None
                           THEN { <<"precision", Precision_to_string(prec[1])>> }
                           ELSE {})),
                Some(Join(lines, <<"\n">>)))

\* write_many with status 400 not returning.
ClassifyWrite_ignore_400(r) ==
    IF r[1] = "Err" THEN Some(Err(Communication(r[2])))
    ELSE CASE r[2].status \in {204, 400} -> None
           [] r[2].status = 200 ->
                Some(Err(CouldNotComplete(Response_to_string(r[2]))))
           [] OTHER -> Some(Err(Unexpected(UnexpectedMessage(r[2]))))

\* write_many with every 2xx status taken as success.
ClassifyWrite_any_2xx(r) ==
    IF r[1] = "Err" THEN Some(Err(Communication(r[2])))
    ELSE IF r[2].status \in 200..299 THEN None
    ELSE IF r[2].status = 400
         THEN Some(Err(Syntax(Response_to_string(r[2]))))
    ELSE Some(Err(Unexpected(UnexpectedMessage(r[2]))))

\* write_many: map_err(ClientError::Communication)? and the match on
\* resp.status; None is the () arm (the loop goes on), Some is the value
\* returned from the call.
ClassifyWrite(r) ==
    IF r[1] = "Err" THEN Some(Err(Communication(r[2])))
    ELSE CASE r[2].status = 204 -> None
           [] r[2].status = 200 ->
                Some(Err(CouldNotComplete(Response_to_string(r[2]))))
           [] r[2].status = 400 ->
                Some(Err(Syntax(Response_to_string(r[2]))))
           [] OTHER -> Some(Err(Unexpected(UnexpectedMessage(r[2]))))

---------------------------------------------------------------------------
(* The encoder on its own: a Point is built by the builder calls and then  *)
(* encoded.                                                                *)

PointKeys == { <<"k">>, <<"a", ",", "b">> }
TagKeys == { <<"a">>, <<"a", " ", "b">>, <<"b">> }
TagValues == { <<"s">>, <<"t", ",", " ">> }
FieldKeys == { <<"b">>, <<"a", ",">>, <<"=", "k">> }
FieldValues ==
    { ValueBoolean(FALSE), ValueInteger(10), ValueString(<<"s", " ">>) }
Timestamps == { 10, -1 }

\* The callers that share the client.
CallIds == { "a", "b" }

\* The locals of a call that has not started.
IdleCall ==
    [pc |-> "idle", op |-> "none", measurements |-> <<>>, precision |-> None,
     q |-> <<>>, offset |-> 0, requests |-> <<>>, responses |-> <<>>,
     result |-> None]

NoCalls == [i \in CallIds |-> IdleCall]

ClientAbsent ==
    /\ calls = NoCalls
    /\ client = None
    /\ pc = "idle"
    /\ op = "none"
    /\ measurements = <<>>
    /\ precision = None
    /\ q = <<>>
    /\ offset = 0
    /\ requests = <<>>
    /\ responses = <<>>
    /\ result = None

PointIdle == pt = None /\ line = None
TextIdle == arg = None /\ out = None

InitPoint == PointIdle /\ TextIdle /\ ClientAbsent

PointNew(key) ==
    /\ pt = None
    /\ pt' = Some(Point_new(key))
    /\ UNCHANGED <<line, textVars, clientVars>>

PointField(field, value) ==
    /\ pt # None /\ line = None
    /\ pt' = Some(Point_field(pt[1], field, value))
    /\ UNCHANGED <<line, textVars, clientVars>>

PointTag(tag, value) ==
    /\ pt # None /\ line = None
    /\ pt' = Some(Point_tag(pt[1], tag, value))
    /\ UNCHANGED <<line, textVars, clientVars>>

PointTimestamp(timestamp) ==
    /\ pt # None /\ line = None
    /\ pt' = Some(Point_timestamp(pt[1], timestamp))
    /\ UNCHANGED <<line, textVars, clientVars>>

\* Point::now: timestamp(the system clock's nanoseconds).
PointNow ==
    /\ pt # None /\ line = None
    /\ \E now \in Timestamps : pt' = Some(Point_timestamp(pt[1], now))
    /\ UNCHANGED <<line, textVars, clientVars>>

PointToString ==
    /\ pt # None
    /\ line' = Some(Point_to_string(pt[1]))
    /\ UNCHANGED <<pt, textVars, clientVars>>

NextPoint ==
    \/ \E key \in PointKeys : PointNew(key)
    \/ \E field \in FieldKeys, value \in FieldValues : PointField(field, value)
    \/ \E tag \in TagKeys, value \in TagValues : PointTag(tag, value)
    \/ \E timestamp \in Timestamps : PointTimestamp(timestamp)
    \/ PointNow
    \/ PointToString

SpecPoint == InitPoint /\ [][NextPoint]_vars

---------------------------------------------------------------------------
(* escape and Value::to_string on their own: each call records its         *)
(* argument and the text it returned.                                      *)

\* Every text over alphabet of length at most n.
Strings(alphabet, n) == UNION { [1..k -> alphabet] : k \in 0..n }

EscapeAlphabet == { " ", ",", "=", "\\", "a" }
StringAlphabet == { "\"", " ", ",", "a" }

ValueInputs ==
    { ValueString(s) : s \in Strings(StringAlphabet, MaxStrLen) }
        \cup { ValueInteger(i) : i \in { -10, 0, 1, 345, 2015 } }
        \cup { ValueFloat(FALSE, 1, <<>>), ValueFloat(TRUE, 3, <<1, 4>>),
               ValueFloat(FALSE, 10, <<>>) }
        \cup { ValueBoolean(b) : b \in BOOLEAN }

InitText == PointIdle /\ TextIdle /\ ClientAbsent

CallEscape(s) ==
    /\ arg' = Some([fn |-> "escape", x |-> s])
    /\ out' = Some(escape(s))
    /\ UNCHANGED <<pointVars, clientVars>>

CallValueToString(val) ==
    /\ arg' = Some([fn |-> "Value::to_string", x |-> val])
    /\ out' = Some(Value_to_string(val))
    /\ UNCHANGED <<pointVars, clientVars>>

NextText ==
    \/ \E s \in Strings(EscapeAlphabet, MaxStrLen) : CallEscape(s)
    \/ \E val \in ValueInputs : CallValueToString(val)

SpecText == InitText /\ [][NextText]_vars

---------------------------------------------------------------------------
(* The client: one call of write_many, write_one or query on a constructed *)
(* InfluxClient, against a transport that answers each request with any    *)
(* status and body, or fails.                                              *)

InfluxClient(username, password, database, host, max_batch) ==
    [username |-> username, password |-> password, database |-> database,
     host |-> host, max_batch |-> max_batch]

Usernames == { <<>>, <<"u">> }
Passwords == { <<>>, <<"p">> }
MaxBatches == 0..MaxBatchBound \cup { MAX_BATCH }

\* The points handed to the client, built with the builder.
SamplePoints ==
    { Point_new(<<"k">>),
      Point_timestamp(
          Point_field(Point_tag(Point_new(<<"a", ",", "b">>), <<"a">>, <<"s">>),
                      <<"b">>, ValueInteger(10)),
          10) }

PointSlices == UNION { [1..n -> SamplePoints] : n \in 0..MaxPoints }
OptPrecisions == { None } \cup { Some(p) : p \in Precisions }
Queries == { <<"q">> }

\* What Hurl::request can return.
Statuses == { 200, 201, 204, 400, 404 }
Bodies == { <<>>, <<"b">> }
HurlResults ==
    { Ok(Response(status, body)) : status \in Statuses, body \in Bodies }
        \cup { Err(<<"x">>) }

Init ==
    /\ PointIdle /\ TextIdle
    /\ \E username \in Usernames, password \in Passwords,
          max_batch \in MaxBatches :
            client = Some(InfluxClient(username, password, <<"d">>, <<"h">>,
                                       max_batch))
    /\ pc = "idle"
    /\ op = "none"
    /\ measurements = <<>>
    /\ precision = None
    /\ q = <<>>
    /\ offset = 0
    /\ requests = <<>>
    /\ responses = <<>>
    /\ result = None
    /\ calls = NoCalls

\* Entry of write_many: measurements.chunks(self.max_batch as usize), which
\* panics on a chunk size of 0.
EnterWriteMany(name, points, prec) ==
    /\ pc = "idle" /\ client # None
    /\ op' = name
    /\ measurements' = points
    /\ precision' = prec
    /\ offset' = 0
    /\ pc' = IF client[1].max_batch = 0 THEN "panicked" ELSE "chunks"
    /\ UNCHANGED <<pointVars, textVars, calls, client, q, requests, responses, result>>

WriteMany(points, prec) == EnterWriteMany("write_many", points, prec)

\* write_one: self.write_many(&[measurement], precision)
WriteOne(point, prec) == EnterWriteMany("write_one", <<point>>, prec)

\* SendChunk without the await: the loop goes on to the next chunk while
\* the request is still in flight.
SendChunk_no_await ==
    /\ pc = "chunks"
    /\ ChunkAt(measurements, offset, client[1].max_batch) # None
    /\ LET chunk == ChunkAt(measurements, offset, client[1].max_batch)[1]
       IN  /\ requests' = Append(requests,
                                 WriteRequest(client[1], chunk, precision))
           /\ offset' = offset + Len(chunk)
    /\ pc' = "chunks"
    /\ UNCHANGED <<pointVars, textVars, calls, client, op, measurements, precision,
                   q, responses, result>>

\* The head of the for loop with a chunk left: the request is built and
\* handed to the transport.
SendChunk ==
    /\ pc = "chunks"
    /\ ChunkAt(measurements, offset, client[1].max_batch) # None
    /\ LET chunk == ChunkAt(measurements, offset, client[1].max_batch)[1]
       IN  /\ requests' = Append(requests,
                                 WriteRequest(client[1], chunk, precision))
           /\ offset' = offset + Len(chunk)
    /\ pc' = "write_await"
    /\ UNCHANGED <<pointVars, textVars, calls, client, op, measurements, precision,
                   q, responses, result>>

\* The head of the for loop with the iterator exhausted: Ok(()).
ChunksDone ==
    /\ pc = "chunks"
    /\ ChunkAt(measurements, offset, client[1].max_batch) = None
    /\ result' = Some(Ok(Unit))
    /\ pc' = "done"
    /\ UNCHANGED <<pointVars, textVars, calls, client, op, measurements, precision,
                   q, offset, requests, responses>>

\* The transport's answer to a write request, and the match on it.
WriteReceive(r) ==
    /\ pc = "write_await"
    /\ responses' = Append(responses, r)
    /\ IF ClassifyWrite(r) = None
       THEN pc' = "chunks" /\ UNCHANGED result
       ELSE pc' = "done" /\ result' = Some(ClassifyWrite(r)[1])
    /\ UNCHANGED <<pointVars, textVars, calls, client, op, measurements, precision,
                   q, offset, requests>>

\* query up to the await of the transport.
Query(qs, epoch) ==
    /\ pc = "idle" /\ client # None
    /\ op' = "query"
    /\ q' = qs
    /\ precision' = epoch
    /\ requests' = Append(requests, QueryRequest(client[1], qs, epoch))
    /\ pc' = "query_await"
    /\ UNCHANGED <<pointVars, textVars, calls, client, measurements, offset,
                   responses, result>>

\* The transport's answer to the query request, and the match on it.
QueryReceive(r) ==
    /\ pc = "query_await"
    /\ responses' = Append(responses, r)
    /\ result' = Some(ClassifyQuery(r))
    /\ pc' = "done"
    /\ UNCHANGED <<pointVars, textVars, calls, client, op, measurements, precision,
                   q, offset, requests>>

Next ==
    \/ \E points \in PointSlices, prec \in OptPrecisions : WriteMany(points, prec)
    \/ \E point \in SamplePoints, prec \in OptPrecisions : WriteOne(point, prec)
    \/ SendChunk
    \/ ChunksDone
    \/ \E r \in HurlResults : WriteReceive(r)
    \/ \E qs \in Queries, epoch \in OptPrecisions : Query(qs, epoch)
    \/ \E r \in HurlResults : QueryReceive(r)

Spec == Init /\ [][Next]_vars

---------------------------------------------------------------------------
(* Concurrent calls: each caller runs write_many, write_one or query on    *)
(* the shared &self; a call's locals are its own, and the calls interleave *)
(* at their awaits of the transport.                                       *)

seqCallVars == <<pc, op, measurements, precision, q, offset, requests,
                 responses, result>>

ConcSlices == UNION { [1..n -> SamplePoints] : n \in 0..MaxConcPoints }
ConcResults ==
    { Ok(Response(204, <<>>)), Ok(Response(200, <<"b">>)),
      Ok(Response(400, <<"b">>)), Err(<<"x">>) }

InitConc ==
    /\ PointIdle /\ TextIdle
    /\ \E max_batch \in 0..MaxBatchBound :
            client = Some(InfluxClient(<<"u">>, <<>>, <<"d">>, <<"h">>,
                                       max_batch))
    /\ pc = "idle"
    /\ op = "none"
    /\ measurements = <<>>
    /\ precision = None
    /\ q = <<>>
    /\ offset = 0
    /\ requests = <<>>
    /\ responses = <<>>
    /\ result = None
    /\ calls = NoCalls

\* Entry of write_many by caller i.
ConcEnterWriteMany(i, name, points, prec) ==
    /\ calls[i].pc = "idle" /\ client # None
    /\ calls' = [calls EXCEPT ![i] =
                    [@ EXCEPT !.op = name,
                              !.measurements = points,
                              !.precision = prec,
                              !.offset = 0,
                              !.pc = IF client[1].max_batch = 0
                                     THEN "panicked" ELSE "chunks"]]
    /\ UNCHANGED <<pointVars, textVars, client, seqCallVars>>

ConcWriteMany(i, points, prec) ==
    ConcEnterWriteMany(i, "write_many", points, prec)

ConcWriteOne(i, point, prec) ==
    ConcEnterWriteMany(i, "write_one", <<point>>, prec)

\* Caller i builds the request of its next chunk and awaits the transport.
ConcSendChunk(i) ==
    /\ calls[i].pc = "chunks"
    /\ ChunkAt(calls[i].measurements, calls[i].offset, client[1].max_batch)
            # None
    /\ LET chunk == ChunkAt(calls[i].measurements, calls[i].offset,
                            client[1].max_batch)[1]
       IN  calls' = [calls EXCEPT ![i] =
                [@ EXCEPT !.requests =
                              Append(@, WriteRequest(client[1], chunk,
                                                     calls[i].precision)),
                          !.offset = @ + Len(chunk),
                          !.pc = "write_await"]]
    /\ UNCHANGED <<pointVars, textVars, client, seqCallVars>>

\* Caller i's chunks iterator is exhausted: Ok(()).
ConcChunksDone(i) ==
    /\ calls[i].pc = "chunks"
    /\ ChunkAt(calls[i].measurements, calls[i].offset, client[1].max_batch)
            = None
    /\ calls' = [calls EXCEPT ![i] =
                    [@ EXCEPT !.result = Some(Ok(Unit)), !.pc = "done"]]
    /\ UNCHANGED <<pointVars, textVars, client, seqCallVars>>

\* ConcWriteReceive with the client lowering its own max_batch to 1 after a
\* failed chunk.
ConcWriteReceive_shrinks_batch(i, r) ==
    /\ calls[i].pc = "write_await"
    /\ calls' = [calls EXCEPT ![i] =
                    [@ EXCEPT !.responses = Append(@, r),
                              !.pc = IF ClassifyWrite(r) = None
                                     THEN "chunks" ELSE "done",
                              !.result = IF ClassifyWrite(r) = None
                                         THEN @
                                         ELSE Some(ClassifyWrite(r)[1])]]
    /\ client' = IF ClassifyWrite(r) = None THEN client
                 ELSE Some([client[1] EXCEPT !.max_batch = 1])
    /\ UNCHANGED <<pointVars, textVars, seqCallVars>>

\* The transport's answer to caller i's write request, and the match on it.
ConcWriteReceive(i, r) ==
    /\ calls[i].pc = "write_await"
    /\ calls' = [calls EXCEPT ![i] =
                    [@ EXCEPT !.responses = Append(@, r),
                              !.pc = IF ClassifyWrite(r) = None
                                     THEN "chunks" ELSE "done",
                              !.result = IF ClassifyWrite(r) = None
                                         THEN @
                                         ELSE Some(ClassifyWrite(r)[1])]]
    /\ UNCHANGED <<pointVars, textVars, client, seqCallVars>>

\* query by caller i, up to the await of the transport.
ConcQuery(i, qs, epoch) ==
    /\ calls[i].pc = "idle" /\ client # None
    /\ calls' = [calls EXCEPT ![i] =
                    [@ EXCEPT !.op = "query",
                              !.q = qs,
                              !.precision = epoch,
                              !.requests =
                                  Append(@, QueryRequest(client[1], qs, epoch)),
                              !.pc = "query_await"]]
    /\ UNCHANGED <<pointVars, textVars, client, seqCallVars>>

\* The transport's answer to caller i's query request, and the match on it.
ConcQueryReceive(i, r) ==
    /\ calls[i].pc = "query_await"
    /\ calls' = [calls EXCEPT ![i] =
                    [@ EXCEPT !.responses = Append(@, r),
                              !.result = Some(ClassifyQuery(r)),
                              !.pc = "done"]]
    /\ UNCHANGED <<pointVars, textVars, client, seqCallVars>>

NextConc ==
    \E i \in CallIds :
        \/ \E points \in ConcSlices : ConcWriteMany(i, points, None)
        \/ \E point \in SamplePoints : ConcWriteOne(i, point, Some("Seconds"))
        \/ ConcSendChunk(i)
        \/ ConcChunksDone(i)
        \/ \E r \in ConcResults : ConcWriteReceive(i, r)
        \/ \E qs \in Queries : ConcQuery(i, qs, None)
        \/ \E r \in ConcResults : ConcQueryReceive(i, r)

SpecConc == InitConc /\ [][NextConc]_vars

---------------------------------------------------------------------------
(* Claims about the client.                                                *)

IsWrite == op \in { "write_many", "write_one" }

Is204(r) == r[1] = "Ok" /\ r[2].status = 204

Last(seq) == seq[Len(seq)]

\* The texts between the "\n" of a body.
RECURSIVE SplitLines(_, _)
SplitLines(s, cur) ==
    IF s = <<>> THEN <<cur>>
    ELSE IF Head(s) = "\n" THEN <<cur>> \o SplitLines(Tail(s), <<>>)
    ELSE SplitLines(Tail(s), Append(cur, Head(s)))

\* The encoded lines a write request carries.
LinesOf(req) == SplitLines(req.body[1], <<>>)

RECURSIVE Flatten(_)
Flatten(seqs) == IF seqs = <<>> THEN <<>> ELSE seqs[1] \o Flatten(Tail(seqs))

CeilDiv(n, m) == (n + m - 1) \div m

\* The encoded lines of the k-th consecutive run of m points of the input.
ChunkLines(k, m) ==
    LET n == Len(measurements)
        hi == IF k * m < n THEN k * m ELSE n
    IN  [j \in 1..(hi - (k - 1) * m) |->
            Point_to_string(measurements[(k - 1) * m + j])]

\* sub occurs in s.
IsInfix(sub, s) ==
    \E i \in 0..(Len(s) - Len(sub)) : SubSeq(s, i + 1, i + Len(sub)) = sub

\* e is the error the claims give for the exchange r, on write (a 200 is
\* CouldNotComplete) or on query.
ErrorMatches(e, r, onWrite) ==
    IF r[1] = "Err" THEN e = Communication(r[2])
    ELSE IF r[2].status = 200 /\ onWrite THEN e = CouldNotComplete(r[2].body)
    ELSE IF r[2].status = 400 THEN e = Syntax(r[2].body)
    ELSE /\ e.kind = "Unexpected"
         /\ IsInfix(IntToString(r[2].status), e.msg)
         /\ IsInfix(r[2].body, e.msg)

\* C1: with max_batch m >= 1 and every response 204, a finished write of n
\* points has issued ceil(n/m) requests, each with at most m points, all
\* but the last with exactly m, and the points of the requests in order are
\* the input in order.
C1_Chunking ==
    (/\ IsWrite /\ pc = "done"
     /\ client[1].max_batch >= 1
     /\ \A k \in 1..Len(responses) : Is204(responses[k])) =>
        LET m == client[1].max_batch
            n == Len(measurements)
        IN  /\ Len(requests) = CeilDiv(n, m)
            /\ \A k \in 1..Len(requests) : Len(LinesOf(requests[k])) <= m
            /\ \A k \in 1..(Len(requests) - 1) : Len(LinesOf(requests[k])) = m
            /\ Flatten([k \in 1..Len(requests) |-> LinesOf(requests[k])])
                 = [j \in 1..n |-> Point_to_string(measurements[j])]

\* Three points written in batches of two: requests of 2 and 1 points.
C1_Witness ==
    /\ op = "write_many" /\ pc = "done"
    /\ Len(measurements) = 3 /\ client[1].max_batch = 2
    /\ measurements[1] # measurements[2]
    /\ Len(requests) = 2 /\ Len(responses) = 2
    /\ Is204(responses[1]) /\ Is204(responses[2])

\* C2: in a write, a response that is not a 204 is the last one: it answers
\* chunk k, exactly the requests for chunks 1..k were issued, one each, the
\* call has returned, and it returned the error of that exchange.
C2_AbortAtFirstFailure ==
    IsWrite =>
        \A k \in 1..Len(responses) :
            ~Is204(responses[k]) =>
                /\ k = Len(responses)
                /\ Len(requests) = k
                /\ \A j \in 1..k :
                      LinesOf(requests[j]) = ChunkLines(j, client[1].max_batch)
                /\ pc = "done"
                /\ result # None /\ result[1][1] = "Err"
                /\ ErrorMatches(result[1][2], responses[k], TRUE)

\* The 2nd of 3 chunks answered 400: Syntax, and two requests.
C2_Witness ==
    /\ op = "write_many" /\ pc = "done"
    /\ Len(measurements) = 3 /\ client[1].max_batch = 1
    /\ Len(responses) = 2 /\ Is204(responses[1])
    /\ responses[2][1] = "Ok" /\ responses[2][2].status = 400
    /\ Len(requests) = 2
    /\ result = Some(Err(Syntax(responses[2][2].body)))

\* C3: a write goes on after a 204 and returns Ok(()) after the last chunk;
\* it returns CouldNotComplete(body) on 200, Syntax(body) on 400,
\* Communication(text) on a transport failure, and Unexpected with the
\* status and the body on every other status.
C3_WriteClassification ==
    (IsWrite /\ pc # "panicked") =>
        /\ pc # "done" =>
              /\ result = None
              /\ \A k \in 1..Len(responses) : Is204(responses[k])
        /\ pc = "done" =>
              /\ result # None
              /\ IF responses = <<>> \/ Is204(Last(responses))
                 THEN result[1] = Ok(Unit)
                 ELSE /\ result[1][1] = "Err"
                      /\ ErrorMatches(result[1][2], Last(responses), TRUE)

\* A write answered 201 with a body: Unexpected.
C3_Witness ==
    /\ IsWrite /\ pc = "done" /\ responses # <<>>
    /\ Last(responses) = Ok(Response(201, <<"b">>))
    /\ result # None /\ result[1][1] = "Err"
    /\ result[1][2].kind = "Unexpected"

\* C4: query issues one request; it returns Ok(body) on 200, Syntax(body)
\* on 400, Communication(text) on a transport failure, and Unexpected with
\* the status and the body on every other status, 204 included.
C4_QueryClassification ==
    op = "query" =>
        /\ Len(requests) = 1
        /\ requests[1].method = "GET"
        /\ pc \in { "query_await", "done" }
        /\ pc = "query_await" => (responses = <<>> /\ result = None)
        /\ pc = "done" =>
              /\ Len(responses) = 1
              /\ result # None
              /\ IF responses[1][1] = "Ok" /\ responses[1][2].status = 200
                 THEN result[1] = Ok(responses[1][2].body)
                 ELSE /\ result[1][1] = "Err"
                      /\ ErrorMatches(result[1][2], responses[1], FALSE)

\* A query answered 204: Unexpected.
C4_Witness ==
    /\ op = "query" /\ pc = "done"
    /\ responses = << Ok(Response(204, <<"b">>)) >>
    /\ result # None /\ result[1][1] = "Err"
    /\ result[1][2].kind = "Unexpected"

\* C5: the query request has no auth exactly when username and password
\* are both empty, and else the client's username and password.
C5_QueryAuth ==
    op = "query" =>
        LET c == client[1]
            auth == requests[1].auth
        IN  /\ auth = None <=> (c.username = <<>> /\ c.password = <<>>)
            /\ auth # None =>
                  (auth[1].username = c.username
                      /\ auth[1].password = c.password)

\* A query by a client with an empty username and a password.
C5_Witness ==
    /\ op = "query"
    /\ client[1].username = <<>> /\ client[1].password = <<"p">>
    /\ requests[1].auth = Some(Auth(<<>>, <<"p">>))

\* The precision codes of the claim.
PrecisionCode(p) ==
    CASE p = "Nanoseconds"  -> <<"n">>
      [] p = "Microseconds" -> <<"u">>
      [] p = "Milliseconds" -> <<"m", "s">>
      [] p = "Seconds"      -> <<"s">>
      [] p = "Minutes"      -> <<"m">>
      [] p = "Hours"        -> <<"h">>

\* C6: every write request is a POST to host + "/write" with the client's
\* username and password as basic-auth, db = the database, precision = the
\* code of the precision exactly when one was given, and as body the
\* encoded lines of its chunk joined by single "\n".
C6_WriteRequest ==
    IsWrite =>
        \A k \in 1..Len(requests) :
            LET c == client[1]
                req == requests[k]
            IN  /\ req.method = "POST"
                /\ req.url = c.host \o <<"/", "w", "r", "i", "t", "e">>
                /\ req.auth = Some(Auth(c.username, c.password))
                /\ req.query # None
                /\ req.query[1] =
                      { <<"db", c.database>> }
                        \cup (IF precision = None THEN {}
                              ELSE { <<"precision", PrecisionCode(precision[1])>> })
                /\ req.body # None
                /\ LinesOf(req) = ChunkLines(k, c.max_batch)
                /\ Head(req.body[1]) # "\n" /\ Last(req.body[1]) # "\n"

\* The second request of a write with precision Minutes by a client with
\* empty credentials.
C6_Witness ==
    /\ op = "write_many" /\ Len(requests) = 2
    /\ precision = Some("Minutes")
    /\ client[1].username = <<>> /\ client[1].password = <<>>
    /\ Len(LinesOf(requests[1])) = 2

\* C11: in a write at most one request is unanswered, and only while the
\* call awaits the transport; the request for chunk k + 1 exists only once
\* the response to chunk k has arrived and was a 204; the k-th request
\* carries the k-th chunk.
C11_Sequential ==
    IsWrite =>
        /\ Len(requests) - Len(responses) \in { 0, 1 }
        /\ (Len(requests) = Len(responses) + 1) <=> (pc = "write_await")
        /\ \A k \in 2..Len(requests) :
              Len(responses) >= k - 1 /\ Is204(responses[k - 1])
        /\ \A k \in 1..Len(requests) :
              LinesOf(requests[k]) = ChunkLines(k, client[1].max_batch)

\* The third request of a write in flight, two 204 received.
C11_Witness ==
    /\ op = "write_many" /\ pc = "write_await"
    /\ Len(requests) = 3 /\ Len(responses) = 2
    /\ measurements[1] # measurements[3]

\* C13: a write never panics, whatever max_batch is (0 included); once it
\* has returned, it returned Ok(()) or a ClientError; and a write of no
\* points with max_batch >= 1 issues no request and returns Ok(()).
C13_NeverPanics ==
    IsWrite =>
        /\ pc # "panicked"
        /\ pc = "done" =>
              (result # None /\ result[1][1] \in { "Ok", "Err" })
        /\ (pc = "done" /\ measurements = <<>> /\ client[1].max_batch >= 1) =>
              (requests = <<>> /\ result = Some(Ok(Unit)))

\* A write run on its own on client c against the responses resps: where
\* it stands, the requests it has issued and what it returned.
RECURSIVE AloneWrite(_, _, _, _, _, _)
AloneWrite(c, ms, prec, off, resps, reqs) ==
    IF ChunkAt(ms, off, c.max_batch) = None
    THEN [pc |-> "done", requests |-> reqs, result |-> Some(Ok(Unit))]
    ELSE LET chunk == ChunkAt(ms, off, c.max_batch)[1]
             sent == Append(reqs, WriteRequest(c, chunk, prec))
         IN  IF resps = <<>>
             THEN [pc |-> "write_await", requests |-> sent, result |-> None]
             ELSE IF ClassifyWrite(Head(resps)) = None
             THEN AloneWrite(c, ms, prec, off + Len(chunk), Tail(resps), sent)
             ELSE [pc |-> "done", requests |-> sent,
                   result |-> Some(ClassifyWrite(Head(resps))[1])]

\* The call with the arguments and the responses of call, run on its own.
Alone(c, call) ==
    IF call.op = "none"
    THEN [pc |-> "idle", requests |-> <<>>, result |-> None]
    ELSE IF call.op = "query"
    THEN LET sent == << QueryRequest(c, call.q, call.precision) >>
         IN  IF call.responses = <<>>
             THEN [pc |-> "query_await", requests |-> sent, result |-> None]
             ELSE [pc |-> "done", requests |-> sent,
                   result |-> Some(ClassifyQuery(call.responses[1]))]
    ELSE IF c.max_batch = 0
    THEN [pc |-> "panicked", requests |-> <<>>, result |-> None]
    ELSE AloneWrite(c, call.measurements, call.precision, 0, call.responses,
                    <<>>)

\* C12: whatever the interleaving of the calls on one client, no step
\* changes the client, and every call has issued the requests and returned
\* the result that the same call run alone against the same responses has
\* (between a 204 and its next request, the requests up to that 204).
C12_Isolated ==
    /\ [](\A i \in CallIds :
            LET call == calls[i]
                alone == Alone(client[1], call)
            IN  IF call.pc = "chunks"
                THEN /\ call.result = None
                     /\ Len(call.requests) = Len(call.responses)
                     /\ call.requests
                          = SubSeq(alone.requests, 1, Len(call.responses))
                ELSE /\ call.pc = alone.pc
                     /\ call.requests = alone.requests
                     /\ call.result = alone.result)
    /\ [][client' = client]_vars

\* Caller a awaits the answer to its second chunk while caller b, which
\* started a query, awaits too, and caller a's first answer is in.
C12_Witness ==
    /\ calls["a"].op = "write_many" /\ calls["a"].pc = "write_await"
    /\ Len(calls["a"].requests) = 2 /\ Len(calls["a"].responses) = 1
    /\ calls["b"].op = "query" /\ calls["b"].pc = "query_await"

---------------------------------------------------------------------------
(* Claims about the encoder.                                               *)

\* The tag section as the claim words it: for each tag, in the order of the
\* map, ',' + escaped key + '=' + escaped value.
RECURSIVE TagSection(_)
TagSection(tags) ==
    IF tags = <<>> THEN <<>>
    ELSE <<",">> \o escape(tags[1][1]) \o <<"=">> \o escape(tags[1][2])
            \o TagSection(Tail(tags))

\* The field section: the first field with no separator, each later one
\* preceded by ','.
RECURSIVE FieldSection(_, _)
FieldSection(fields, first) ==
    IF fields = <<>> THEN <<>>
    ELSE (IF first THEN <<>> ELSE <<",">>) \o escape(fields[1][1]) \o <<"=">>
            \o Value_to_string(fields[1][2]) \o FieldSection(Tail(fields), FALSE)

TimestampSection(timestamp) ==
    IF timestamp = None THEN <<>> ELSE <<" ">> \o IntToString(timestamp[1])

KeySorted(m) == \A j \in 1..(Len(m) - 1) : StrLess(m[j][1], m[j + 1][1])

\* C7 as stated: every encoded line is the escaped key, the tag section in
\* key-sorted order, a single space (for every point, also one with no
\* fields), the field section in key-sorted order, and the timestamp
\* section exactly when a timestamp is present.
C7_AsStated ==
    line # None =>
        /\ KeySorted(pt[1].tags) /\ KeySorted(pt[1].fields)
        /\ line[1] = escape(pt[1].key) \o TagSection(pt[1].tags) \o <<" ">>
                        \o FieldSection(pt[1].fields, TRUE)
                        \o TimestampSection(pt[1].timestamp)

\* C7 amended: as C7, except that the single space after the tag section is
\* emitted exactly when the field map is non-empty (it is the separator
\* pushed before the first field).
C7_LineLayout ==
    line # None =>
        /\ KeySorted(pt[1].tags) /\ KeySorted(pt[1].fields)
        /\ line[1] = escape(pt[1].key) \o TagSection(pt[1].tags)
                        \o (IF pt[1].fields # <<>> THEN <<" ">> ELSE <<>>)
                        \o FieldSection(pt[1].fields, TRUE)
                        \o TimestampSection(pt[1].timestamp)

C7_Witness ==
    /\ line # None
    /\ Len(pt[1].tags) >= 2 /\ Len(pt[1].fields) >= 2
    /\ pt[1].timestamp # None

\* The pairs of a map, as a set: what the builder calls left, whatever
\* their order.
Pairs(m) == { m[j] : j \in 1..Len(m) }

\* The pairs of a set in lexicographic key order.
RECURSIVE SortByKey(_)
SortByKey(S) ==
    IF S = {} THEN <<>>
    ELSE LET least == CHOOSE x \in S : \A y \in S \ {x} : StrLess(x[1], y[1])
         IN  <<least>> \o SortByKey(S \ {least})

\* C8: the encoded line is a function of the key, the set of tag pairs, the
\* set of field pairs and the timestamp alone, with tags and fields in
\* lexicographic key order, whatever order the builder calls came in.
C8_OrderIndependent ==
    line # None =>
        line[1] = escape(pt[1].key)
                    \o TagSection(SortByKey(Pairs(pt[1].tags)))
                    \o (IF pt[1].fields # <<>> THEN <<" ">> ELSE <<>>)
                    \o FieldSection(SortByKey(Pairs(pt[1].fields)), TRUE)
                    \o TimestampSection(pt[1].timestamp)

\* A point whose largest tag key and largest field key were not inserted
\* last, encoded.
C8_Witness ==
    /\ line # None
    /\ Len(pt[1].tags) = 3 /\ Len(pt[1].fields) = 3
    /\ pt[1].timestamp = Some(-1)

\* The text the claim describes: each space and each comma preceded by a
\* backslash, every other character copied.
RECURSIVE EscapedCopy(_)
EscapedCopy(s) ==
    IF s = <<>> THEN <<>>
    ELSE (IF Head(s) \in {" ", ","} THEN <<"\\", Head(s)>> ELSE <<Head(s)>>)
            \o EscapedCopy(Tail(s))

\* The contents of a String value: only '"' gains a backslash.
RECURSIVE QuotedCopy(_)
QuotedCopy(s) ==
    IF s = <<>> THEN <<>>
    ELSE (IF Head(s) = "\"" THEN <<"\\", "\"">> ELSE <<Head(s)>>)
            \o QuotedCopy(Tail(s))

\* C9: escape replaces every space by backslash+space and every comma by
\* backslash+comma and copies every other character ('=' and backslash
\* too), so every space and comma of its output follows a backslash; the
\* contents of a String value are not escaped this way.
C9_Escape ==
    /\ (arg # None /\ arg[1].fn = "escape") =>
          /\ out[1] = EscapedCopy(arg[1].x)
          /\ \A j \in 1..Len(out[1]) :
                out[1][j] \in {" ", ","} => (j > 1 /\ out[1][j - 1] = "\\")
    /\ (arg # None /\ arg[1].fn = "Value::to_string"
            /\ arg[1].x.type = "String") =>
          out[1] = <<"\"">> \o QuotedCopy(arg[1].x.v) \o <<"\"">>

C9_Witness ==
    /\ arg # None /\ arg[1].fn = "escape"
    /\ arg[1].x = <<"=", ",", " ">>
    /\ out = Some(<<"=", "\\", ",", "\\", " ">>)

=============================================================================
